---- MODULE Spec2Model ----
(***************************************************************************)
(* Model of github.com/pijng/result.  The repository holds several         *)
(* revisions of the same Result container; each is modelled separately     *)
(* and the suffix of a definition names the revision it is translated      *)
(* from:                                                                   *)
(*   _A  src/result.go lines   1-243  (value *T, err error)                *)
(*   _B  src/result.go lines 244-473  (value *T, err *E, strict bool);     *)
(*       constructors, Match, IsErr and the methods that call isOk()       *)
(*   _C  src/result.go lines 474-726  (value *T, err *E, strict bool)      *)
(*   _R  src/unnamed/part_000         (value T, err error, variant)        *)
(*   _S  the revision exercised by src/unnamed/part_001 lines 35-107,      *)
(*       New(value, rError, C{strict}) with Value() and Error(); its code  *)
(*       is not in the repository snapshot and follows spec.md 4.1, 4.4    *)
(* Pointers are addresses into an append-only heap; address 0 is nil.      *)
(* An error interface value is a sequence of messages, outermost context   *)
(* first; the empty sequence is the nil error.  The goroutine's call stack *)
(* is kept where a call does not complete in one step (revision B).        *)
(***************************************************************************)
EXTENDS Integers, Sequences, FiniteSets, TLC

VARIABLES rev, heap, r, origin, last, stack

vars == <<rev, heap, r, origin, last, stack>>

\* ------------------------------------------------------------------ bounds
MaxVal == 1
MaxHeap == 3
\* frames the runtime lets the call stack grow to
MaxStack == 4

\* ----------------------------------------------------------- value domains
Values == 0 .. MaxVal

ZeroT == 0

NilPtr == 0

NilErr == << >>

ErrorsA == { <<"e1">>, <<"e2">> }

Configs == { << >>, << [Strict |-> TRUE] >> }

NoArg == -1

NoRet == [none |-> TRUE]

\* ------------------------------------------------- outcomes of one call
Returned(h, ret) ==
    [panicked |-> FALSE, ret |-> ret, heap |-> h,
     okCalls |-> 0, errCalls |-> 0, okArg |-> NoArg, errArg |-> NoArg,
     cbRet |-> NoRet]

Panicked(h) ==
    [panicked |-> TRUE, ret |-> NoRet, heap |-> h,
     okCalls |-> 0, errCalls |-> 0, okArg |-> NoArg, errArg |-> NoArg,
     cbRet |-> NoRet]

\* -------------------------------------------------- caller-supplied funcs
MapFuncs == { "inc", "zero" }

ApplyMap(f, v) == IF f = "inc" THEN (v + 1) % (MaxVal + 1) ELSE ZeroT

ThenFuncs == { "thenOk", "thenErr" }

MatchFuncs == { "inc", "zero" }

\* ======================================================================
\* Revision C: src/result.go lines 474-726 (value *T, err *E, strict bool)
\* ======================================================================
ZeroResult_C == [value |-> NilPtr, err |-> NilPtr, strict |-> FALSE]

isStrict_C(config) == IF Len(config) > 0 THEN config[1].Strict ELSE FALSE

ok_C(h, value, config) ==
    Returned(Append(h, value),
             [value |-> Len(h) + 1, err |-> NilPtr, strict |-> isStrict_C(config)])

err_C(h, e, config) ==
    Returned(Append(h, e),
             [value |-> NilPtr, err |-> Len(h) + 1, strict |-> isStrict_C(config)])

Ok_C(h, value, config) == ok_C(h, value, config)

Err_C(h, rErr, config) == err_C(h, rErr, config)

newResult_C(h, value, rError, config) ==
    Returned(h \o <<value, rError>>,
             [value |-> Len(h) + 1, err |-> Len(h) + 2,
              strict |-> isStrict_C(config)])

\* *r.value: a nil pointer dereference panics
innerValue_C(h, res) ==
    IF res.value = NilPtr THEN Panicked(h) ELSE Returned(h, h[res.value])

\* *r.err: a nil pointer dereference panics
innerError_C(h, res) ==
    IF res.err = NilPtr THEN Panicked(h) ELSE Returned(h, h[res.err])

IsErr_C(res) == res.err # NilPtr

\* faulty variant: success decided by the presence of a value
IsOk_C_HasValue(res) == res.value # NilPtr

IsOk_C(res) == res.err = NilPtr

\* r.err == &rErr: rErr is the parameter, a variable of this call, and its
\* address is one no payload cell allocated before the call has
IsErrAnd_C(h, res, rErr) ==
    IF res.err = NilPtr THEN Returned(h, FALSE)
    ELSE LET addrOfRErr == Len(h) + 1
         IN Returned(h, res.err = addrOfRErr)

IsStrict_C(res) == res.strict

\* the Result a caller's AndThen callback builds from the value it is given
CallThen_C(h, f, v) ==
    IF f = "thenOk" THEN Ok_C(h, (v + 1) % (MaxVal + 1), << >>)
    ELSE Err_C(h, MaxVal, << >>)

\* faulty variant: the branch is chosen by the presence of a value
Match_C_ByValue(h, res, okF, errF) ==
    IF res.value = NilPtr
    THEN LET e == innerError_C(h, res) IN
         IF e.panicked THEN Panicked(h)
         ELSE [Returned(h, ApplyMap(errF, e.ret))
                  EXCEPT !.errCalls = 1, !.errArg = e.ret]
    ELSE LET v == innerValue_C(h, res) IN
         IF v.panicked THEN Panicked(h)
         ELSE [Returned(h, ApplyMap(okF, v.ret))
                  EXCEPT !.okCalls = 1, !.okArg = v.ret]

Match_C(h, res, okF, errF) ==
    IF res.err # NilPtr
    THEN LET e == innerError_C(h, res) IN
         IF e.panicked THEN Panicked(h)
         ELSE [Returned(h, ApplyMap(errF, e.ret))
                  EXCEPT !.errCalls = 1, !.errArg = e.ret]
    ELSE LET v == innerValue_C(h, res) IN
         IF v.panicked THEN Panicked(h)
         ELSE [Returned(h, ApplyMap(okF, v.ret))
                  EXCEPT !.okCalls = 1, !.okArg = v.ret]

And_C(h, res, newR) ==
    IF res.err # NilPtr
    THEN LET e == innerError_C(h, res) IN
         IF e.panicked THEN Panicked(h) ELSE err_C(h, e.ret, << >>)
    ELSE IF newR.err # NilPtr
    THEN LET e == innerError_C(h, newR) IN
         IF e.panicked THEN Panicked(h) ELSE err_C(h, e.ret, << >>)
    ELSE LET v == innerValue_C(h, newR) IN
         IF v.panicked THEN Panicked(h) ELSE ok_C(h, v.ret, << >>)

AndThen_C(h, res, f) ==
    IF res.err # NilPtr
    THEN LET e == innerError_C(h, res) IN
         IF e.panicked THEN Panicked(h) ELSE err_C(h, e.ret, << >>)
    ELSE LET v == innerValue_C(h, res) IN
         IF v.panicked THEN Panicked(h)
         ELSE LET c == CallThen_C(h, f, v.ret) IN
              [c EXCEPT !.okCalls = 1, !.okArg = v.ret, !.cbRet = c.ret]

Map_C(h, res, okF) ==
    LET v == innerValue_C(h, res) IN
    IF v.panicked THEN Panicked(h)
    ELSE LET computed == ApplyMap(okF, v.ret) IN
         [Returned(Append(h, computed),
                   [value |-> Len(h) + 1, err |-> res.err, strict |-> FALSE])
             EXCEPT !.okCalls = 1, !.okArg = v.ret]

\* faulty variant: the new error is written through the receiver's pointer
MapErr_C_InPlace(h, res, errF) ==
    IF res.err = NilPtr THEN Returned(h, res)
    ELSE LET e == innerError_C(h, res) IN
         IF e.panicked THEN Panicked(h)
         ELSE LET computed == ApplyMap(errF, e.ret) IN
              [Returned([h EXCEPT ![res.err] = computed],
                        [value |-> res.value, err |-> res.err,
                         strict |-> FALSE])
                  EXCEPT !.errCalls = 1, !.errArg = e.ret]

MapErr_C(h, res, errF) ==
    IF res.err = NilPtr THEN Returned(h, res)
    ELSE LET e == innerError_C(h, res) IN
         IF e.panicked THEN Panicked(h)
         ELSE LET computed == ApplyMap(errF, e.ret) IN
              [Returned(Append(h, computed),
                        [value |-> res.value, err |-> Len(h) + 1,
                         strict |-> FALSE])
                  EXCEPT !.errCalls = 1, !.errArg = e.ret]

\* faulty variant: the strict flag is not consulted
Unwrap_C_IgnoresStrict(h, res) ==
    LET v == innerValue_C(h, res)
        e == innerError_C(h, res)
    IN IF v.panicked \/ e.panicked THEN Panicked(h)
       ELSE Returned(h, <<v.ret, e.ret>>)

Unwrap_C(h, res) ==
    IF res.strict THEN Panicked(h)
    ELSE LET v == innerValue_C(h, res)
             e == innerError_C(h, res)
         IN IF v.panicked \/ e.panicked THEN Panicked(h)
            ELSE Returned(h, <<v.ret, e.ret>>)

MapOr_C(h, res, rDefault, f) ==
    IF res.err # NilPtr THEN Returned(h, rDefault)
    ELSE LET v == innerValue_C(h, res) IN
         IF v.panicked THEN Panicked(h)
         ELSE [Returned(h, ApplyMap(f, v.ret))
                  EXCEPT !.okCalls = 1, !.okArg = v.ret]

MapOrElse_C(h, res, errF, okF) ==
    IF res.err # NilPtr
    THEN LET e == innerError_C(h, res) IN
         IF e.panicked THEN Panicked(h)
         ELSE [Returned(h, ApplyMap(errF, e.ret))
                  EXCEPT !.errCalls = 1, !.errArg = e.ret]
    ELSE LET v == innerValue_C(h, res) IN
         IF v.panicked THEN Panicked(h)
         ELSE [Returned(h, ApplyMap(okF, v.ret))
                  EXCEPT !.okCalls = 1, !.okArg = v.ret]

\* faulty variant: the branches are exchanged
UnwrapOr_C_Swapped(h, res, rDefault) ==
    IF res.err = NilPtr THEN Returned(h, rDefault)
    ELSE innerValue_C(h, res)

UnwrapOr_C(h, res, rDefault) ==
    IF res.err # NilPtr THEN Returned(h, rDefault)
    ELSE innerValue_C(h, res)

UnwrapOrElse_C(h, res, f) ==
    IF res.err = NilPtr THEN innerValue_C(h, res)
    ELSE LET e == innerError_C(h, res) IN
         IF e.panicked THEN Panicked(h)
         ELSE [Returned(h, ApplyMap(f, e.ret))
                  EXCEPT !.errCalls = 1, !.errArg = e.ret]

\* ======================================================================
\* Revision B: src/result.go lines 244-473 (value *T, err *E, strict bool)
\* ======================================================================
ZeroResult_B == [value |-> NilPtr, err |-> NilPtr, strict |-> FALSE]

extractStrict_B(config) ==
    IF Len(config) > 0 THEN config[1].Strict ELSE FALSE

ok_B(h, value, config) ==
    Returned(Append(h, value),
             [value |-> Len(h) + 1, err |-> NilPtr,
              strict |-> extractStrict_B(config)])

err_B(h, e, config) ==
    Returned(Append(h, e),
             [value |-> NilPtr, err |-> Len(h) + 1,
              strict |-> extractStrict_B(config)])

Ok_B(h, value, config) == ok_B(h, value, config)

Err_B(h, rErr, config) == err_B(h, rErr, config)

newResult_B(h, value, rError, config) ==
    Returned(h \o <<value, rError>>,
             [value |-> Len(h) + 1, err |-> Len(h) + 2,
              strict |-> extractStrict_B(config)])

innerValue_B(h, res) ==
    IF res.value = NilPtr THEN Panicked(h) ELSE Returned(h, h[res.value])

innerError_B(h, res) ==
    IF res.err = NilPtr THEN Panicked(h) ELSE Returned(h, h[res.err])

isErr_B(res) == res.err # NilPtr

IsErr_B(res) == isErr_B(res)

Match_B(h, res, okF, errF) ==
    IF isErr_B(res)
    THEN LET e == innerError_B(h, res) IN
         IF e.panicked THEN Panicked(h)
         ELSE [Returned(h, ApplyMap(errF, e.ret))
                  EXCEPT !.errCalls = 1, !.errArg = e.ret]
    ELSE LET v == innerValue_B(h, res) IN
         IF v.panicked THEN Panicked(h)
         ELSE [Returned(h, ApplyMap(okF, v.ret))
                  EXCEPT !.okCalls = 1, !.okArg = v.ret]

\* the call stack: frames, innermost last, and whether the runtime has
\* ended the program with "fatal error: stack overflow"
NoFrames == [frames |-> << >>, overflow |-> FALSE]

\* the methods whose first statement is the call r.isOk()
IsOkCallers_B == { "IsOk", "IsErrAnd", "MapErr", "UnwrapOr", "UnwrapOrElse" }

\* ======================================================================
\* Revision A: src/result.go lines 1-243 (value *T, err error)
\* ======================================================================
ZeroResult_A == [value |-> NilPtr, err |-> NilErr]

ErrFuncs_A == { "tag", "nil" }

\* a caller's func(error) error
ApplyErr_A(f, e) == IF f = "tag" THEN <<"tag">> \o e ELSE NilErr

ErrMatchFuncs_A == { "len", "zero" }

\* a caller's func(error) U
ApplyErrU_A(f, e) == IF f = "len" THEN Len(e) ELSE ZeroT

ErrPreds_A == { "isE1", "never" }

\* a caller's func(error) bool: errors.Is(e, e1), or constantly false
ApplyErrPred_A(f, e) ==
    IF f = "isE1" THEN \E i \in 1 .. Len(e) : e[i] = "e1" ELSE FALSE

ExpectMsgs == { "ctx" }

ok_A(h, value) ==
    Returned(Append(h, value), [value |-> Len(h) + 1, err |-> NilErr])

err_A(h, e) == Returned(h, [value |-> NilPtr, err |-> e])

Ok_A(h, value) == ok_A(h, value)

Err_A(h, rErr) == err_A(h, rErr)

\* faulty variant: dispatches on the error the way New does, dropping the value
newResult_A_Dispatches(h, value, rError) ==
    IF rError # NilErr THEN err_A(h, rError) ELSE ok_A(h, value)

newResult_A(h, value, rError) ==
    Returned(Append(h, value), [value |-> Len(h) + 1, err |-> rError])

innerValue_A(h, res) == IF res.value = NilPtr THEN ZeroT ELSE h[res.value]

innerError_A(res) == IF res.err = NilErr THEN NilErr ELSE res.err

isErr_A(res) == res.err # NilErr

isOk_A(res) == res.err = NilErr

IsErr_A(res) == isErr_A(res)

IsOk_A(res) == isOk_A(res)

IsErrAnd_A(h, res, f) ==
    IF isOk_A(res) THEN Returned(h, FALSE)
    ELSE [Returned(h, ApplyErrPred_A(f, innerError_A(res)))
             EXCEPT !.errCalls = 1, !.errArg = innerError_A(res)]

\* the Result a caller's AndThen callback builds from the value it is given
CallThen_A(h, f, v) ==
    IF f = "thenOk" THEN Ok_A(h, (v + 1) % (MaxVal + 1))
    ELSE Err_A(h, <<"e2">>)

Match_A(h, res, okF, errF) ==
    IF isErr_A(res)
    THEN [Returned(h, ApplyErrU_A(errF, innerError_A(res)))
             EXCEPT !.errCalls = 1, !.errArg = innerError_A(res)]
    ELSE [Returned(h, ApplyMap(okF, innerValue_A(h, res)))
             EXCEPT !.okCalls = 1, !.okArg = innerValue_A(h, res)]

And_A(h, res, newR) ==
    IF isErr_A(res) THEN Returned(h, res)
    ELSE IF isErr_A(newR) THEN Returned(h, newR)
    ELSE Returned(h, res)

\* faulty variant: no short circuit, f runs on an error-holding receiver too
AndThen_A_NoShortCircuit(h, res, f) ==
    LET c == CallThen_A(h, f, innerValue_A(h, res)) IN
    [c EXCEPT !.okCalls = 1, !.okArg = innerValue_A(h, res), !.cbRet = c.ret]

AndThen_A(h, res, f) ==
    IF isErr_A(res) THEN Returned(h, res)
    ELSE LET c == CallThen_A(h, f, innerValue_A(h, res)) IN
         [c EXCEPT !.okCalls = 1, !.okArg = innerValue_A(h, res),
                   !.cbRet = c.ret]

Map_A(h, res, okF) ==
    LET computedValue == ApplyMap(okF, innerValue_A(h, res)) IN
    [newResult_A(h, computedValue, innerError_A(res))
        EXCEPT !.okCalls = 1, !.okArg = innerValue_A(h, res)]

MapErr_A(h, res, errF) ==
    IF isOk_A(res) THEN Returned(h, res)
    ELSE LET computedErr == ApplyErr_A(errF, innerError_A(res))
             value == innerValue_A(h, res)
         IN [Returned(Append(h, value),
                      [value |-> Len(h) + 1, err |-> computedErr])
                EXCEPT !.errCalls = 1, !.errArg = innerError_A(res)]

\* faulty variant: the new error carries msg alone and wraps nothing
Expect_A_DropsCause(h, res, msg) ==
    IF isOk_A(res) THEN Returned(h, res)
    ELSE LET wrappedErr == <<msg>>
             value == innerValue_A(h, res)
         IN Returned(Append(h, value),
                     [value |-> Len(h) + 1, err |-> wrappedErr])

\* fmt.Errorf("%v: %w", msg, r.err): msg in front, r.err still wrapped
Expect_A(h, res, msg) ==
    IF isOk_A(res) THEN Returned(h, res)
    ELSE LET wrappedErr == <<msg>> \o res.err
             value == innerValue_A(h, res)
         IN Returned(Append(h, value),
                     [value |-> Len(h) + 1, err |-> wrappedErr])

Unwrap_A(h, res) == Returned(h, <<innerValue_A(h, res), innerError_A(res)>>)

MapOr_A(h, res, rDefault, f) ==
    IF isErr_A(res) THEN Returned(h, rDefault)
    ELSE [Returned(h, ApplyMap(f, innerValue_A(h, res)))
             EXCEPT !.okCalls = 1, !.okArg = innerValue_A(h, res)]

MapOrElse_A(h, res, errF, okF) ==
    IF isErr_A(res)
    THEN [Returned(h, ApplyErrU_A(errF, innerError_A(res)))
             EXCEPT !.errCalls = 1, !.errArg = innerError_A(res)]
    ELSE [Returned(h, ApplyMap(okF, innerValue_A(h, res)))
             EXCEPT !.okCalls = 1, !.okArg = innerValue_A(h, res)]

UnwrapOr_A(h, res, rDefault) ==
    IF isOk_A(res) THEN Returned(h, innerValue_A(h, res))
    ELSE Returned(h, rDefault)

UnwrapOrElse_A(h, res, f) ==
    IF isOk_A(res) THEN Returned(h, innerValue_A(h, res))
    ELSE [Returned(h, ApplyErrU_A(f, innerError_A(res)))
             EXCEPT !.errCalls = 1, !.errArg = innerError_A(res)]

\* ======================================================================
\* Revision R: src/unnamed/part_000 (value T, err error, variant)
\* ======================================================================
ZeroResult_R == [value |-> ZeroT, err |-> NilErr, variant |-> "nil"]

ok_R(value) == [value |-> value, err |-> NilErr, variant |-> "*isOk"]

err_R(e) == [value |-> ZeroT, err |-> e, variant |-> "*isErr"]

\* faulty variant: the value is kept beside the error
New_R_KeepsValue(value, rError) ==
    [value |-> value, err |-> rError,
     variant |-> IF rError # NilErr THEN "*isErr" ELSE "*isOk"]

New_R(value, rError) == IF rError # NilErr THEN err_R(rError) ELSE ok_R(value)

Match_R(res) == res.variant

Value_R(res) == res.value

Error_R(res) == res.err

Ok_R == "*isOk"

Err_R == "*isErr"

Unwrap_R(res) == <<Value_R(res), Error_R(res)>>

\* ======================================================================
\* Revision S: New with a strict config, Value() and Error()
\* (spec.md 4.1 and 4.4; exercised by src/unnamed/part_001 lines 35-107)
\* ======================================================================
ZeroResult_S == [value |-> ZeroT, err |-> NilErr, strict |-> FALSE]

New_S(value, rError, config) ==
    IF rError # NilErr
    THEN [value |-> ZeroT, err |-> rError, strict |-> isStrict_C(config)]
    ELSE [value |-> value, err |-> NilErr, strict |-> isStrict_C(config)]

Value_S(h, res) == IF res.strict THEN Panicked(h) ELSE Returned(h, res.value)

Error_S(h, res) == Returned(h, res.err)

\* ======================================================================
\* The calling program: it holds one Result r, built once and then passed
\* through combinators and observers; a panic is recovered by the caller
\* and leaves r as it was.
\* ======================================================================
Revs == { "A", "B", "C", "R", "S" }

ZeroResult(rv) ==
    IF rv = "A" THEN ZeroResult_A
    ELSE IF rv = "B" THEN ZeroResult_B
    ELSE IF rv = "C" THEN ZeroResult_C
    ELSE IF rv = "R" THEN ZeroResult_R
    ELSE ZeroResult_S

Built(by, v, e, strict) ==
    [by |-> by, value |-> v, error |-> e, strict |-> strict, derived |-> FALSE]

NoCall ==
    [op |-> "none", recv |-> NoRet, direct |-> FALSE,
     arg |-> NoArg, arg2 |-> NoArg,
     panicked |-> FALSE, ret |-> NoRet, okCalls |-> 0, errCalls |-> 0,
     okArg |-> NoArg, errArg |-> NoArg, cbRet |-> NoRet]

\* direct: the receiver is the Result as its constructor returned it
Call(op, recv, arg, arg2, o) ==
    [op |-> op, recv |-> recv, direct |-> ~origin.derived,
     arg |-> arg, arg2 |-> arg2,
     panicked |-> o.panicked, ret |-> o.ret,
     okCalls |-> o.okCalls, errCalls |-> o.errCalls,
     okArg |-> o.okArg, errArg |-> o.errArg, cbRet |-> o.cbRet]

Fresh == origin.by = "zero" /\ ~origin.derived /\ heap = << >>

CanAlloc == Len(heap) < MaxHeap

\* a constructor call: r is the Result it returns
Construct(op, by, v, e, strict, o) ==
    /\ heap' = o.heap
    /\ r' = o.ret
    /\ origin' = Built(by, v, e, strict)
    /\ last' = Call(op, NoRet, v, e, o)
    /\ UNCHANGED <<rev, stack>>

\* a combinator call: r becomes the Result it returns, unless it panicked
Derive(op, recv, arg, arg2, o) ==
    /\ heap' = o.heap
    /\ r' = IF o.panicked THEN r ELSE o.ret
    /\ origin' = IF o.panicked THEN origin ELSE [origin EXCEPT !.derived = TRUE]
    /\ last' = Call(op, recv, arg, arg2, o)
    /\ UNCHANGED <<rev, stack>>

\* a call that returns a plain value: r stays
Observe(op, recv, arg, arg2, o) ==
    /\ heap' = o.heap
    /\ last' = Call(op, recv, arg, arg2, o)
    /\ UNCHANGED <<rev, r, origin, stack>>

Init ==
    /\ rev \in Revs
    /\ heap = << >>
    /\ r = ZeroResult(rev)
    /\ origin = Built("zero", NoArg, NoArg, FALSE)
    /\ last = NoCall
    /\ stack = NoFrames

\* ------------------------------------------------------------ revision C
CallOk_C ==
    /\ rev = "C" /\ Fresh
    /\ \E v \in Values, cfg \in Configs :
          Construct("Ok", "Ok", v, NoArg, isStrict_C(cfg), Ok_C(heap, v, cfg))

CallErr_C ==
    /\ rev = "C" /\ Fresh
    /\ \E e \in Values, cfg \in Configs :
          Construct("Err", "Err", NoArg, e, isStrict_C(cfg), Err_C(heap, e, cfg))

CallNewResult_C ==
    /\ rev = "C" /\ Fresh
    /\ \E v \in Values, e \in Values, cfg \in Configs :
          Construct("newResult", "newResult", v, e, isStrict_C(cfg),
                    newResult_C(heap, v, e, cfg))

\* Result[T, E]{...} written out field by field inside the package
Literal_C ==
    /\ rev = "C" /\ Fresh
    /\ \E hasV \in BOOLEAN, hasE \in BOOLEAN, v \in Values, e \in Values,
          strict \in BOOLEAN :
          LET h1 == IF hasV THEN Append(heap, v) ELSE heap
              h2 == IF hasE THEN Append(h1, e) ELSE h1
              lit == [value |-> IF hasV THEN Len(h1) ELSE NilPtr,
                      err |-> IF hasE THEN Len(h2) ELSE NilPtr,
                      strict |-> strict]
          IN Construct("literal", "literal",
                       IF hasV THEN v ELSE NoArg, IF hasE THEN e ELSE NoArg,
                       strict, Returned(h2, lit))

CallMatch_C ==
    /\ rev = "C"
    /\ \E okF \in MatchFuncs, errF \in MatchFuncs :
          Observe("Match", r, okF, errF, Match_C(heap, r, okF, errF))

CallAnd_C ==
    /\ rev = "C" /\ CanAlloc
    /\ \E v \in Values, isE \in BOOLEAN, cfg \in Configs :
          LET a == IF isE THEN Err_C(heap, v, cfg) ELSE Ok_C(heap, v, cfg)
          IN Derive("And", r, a.ret, v, And_C(a.heap, r, a.ret))

CallAndThen_C ==
    /\ rev = "C" /\ CanAlloc
    /\ \E f \in ThenFuncs : Derive("AndThen", r, f, NoArg, AndThen_C(heap, r, f))

CallIsErr_C ==
    /\ rev = "C"
    /\ Observe("IsErr", r, NoArg, NoArg, Returned(heap, IsErr_C(r)))

CallIsOk_C ==
    /\ rev = "C"
    /\ Observe("IsOk", r, NoArg, NoArg, Returned(heap, IsOk_C(r)))

CallIsErrAnd_C ==
    /\ rev = "C"
    /\ \E rErr \in Values :
          Observe("IsErrAnd", r, rErr, NoArg, IsErrAnd_C(heap, r, rErr))

CallMap_C ==
    /\ rev = "C" /\ CanAlloc
    /\ \E okF \in MapFuncs : Derive("Map", r, okF, NoArg, Map_C(heap, r, okF))

CallMapErr_C ==
    /\ rev = "C" /\ CanAlloc
    /\ \E errF \in MapFuncs :
          Derive("MapErr", r, errF, NoArg, MapErr_C(heap, r, errF))

CallUnwrap_C ==
    /\ rev = "C"
    /\ Observe("Unwrap", r, NoArg, NoArg, Unwrap_C(heap, r))

CallMapOr_C ==
    /\ rev = "C"
    /\ \E f \in MapFuncs :
          Observe("MapOr", r, MaxVal, f, MapOr_C(heap, r, MaxVal, f))

CallMapOrElse_C ==
    /\ rev = "C"
    /\ \E f \in MatchFuncs :
          Observe("MapOrElse", r, f, f, MapOrElse_C(heap, r, f, f))

CallUnwrapOr_C ==
    /\ rev = "C"
    /\ \E d \in Values :
          Observe("UnwrapOr", r, d, NoArg, UnwrapOr_C(heap, r, d))

CallUnwrapOrElse_C ==
    /\ rev = "C"
    /\ \E f \in MatchFuncs :
          Observe("UnwrapOrElse", r, f, NoArg, UnwrapOrElse_C(heap, r, f))

\* ------------------------------------------------------------ revision B
\* no call is in progress and the program has not been ended
Idle == stack = NoFrames

\* a method is entered and reaches its call of r.isOk()
Enter_B(method) ==
    /\ rev = "B" /\ Idle
    /\ stack' = [stack EXCEPT !.frames = <<method, "isOk">>]
    /\ UNCHANGED <<rev, heap, r, origin, last>>

CallOk_B ==
    /\ rev = "B" /\ Fresh /\ Idle
    /\ \E v \in Values, cfg \in Configs :
          Construct("Ok", "Ok", v, NoArg, extractStrict_B(cfg),
                    Ok_B(heap, v, cfg))

CallErr_B ==
    /\ rev = "B" /\ Fresh /\ Idle
    /\ \E e \in Values, cfg \in Configs :
          Construct("Err", "Err", NoArg, e, extractStrict_B(cfg),
                    Err_B(heap, e, cfg))

CallNewResult_B ==
    /\ rev = "B" /\ Fresh /\ Idle
    /\ \E v \in Values, e \in Values, cfg \in Configs :
          Construct("newResult", "newResult", v, e, extractStrict_B(cfg),
                    newResult_B(heap, v, e, cfg))

CallIsErr_B ==
    /\ rev = "B" /\ Idle
    /\ Observe("IsErr", r, NoArg, NoArg, Returned(heap, IsErr_B(r)))

CallMatch_B ==
    /\ rev = "B" /\ Idle
    /\ \E okF \in MatchFuncs, errF \in MatchFuncs :
          Observe("Match", r, okF, errF, Match_B(heap, r, okF, errF))

CallIsOk_B == Enter_B("IsOk")

CallIsErrAnd_B == Enter_B("IsErrAnd")

CallMapErr_B == Enter_B("MapErr")

CallUnwrapOr_B == Enter_B("UnwrapOr")

CallUnwrapOrElse_B == Enter_B("UnwrapOrElse")

\* the body of isOk, return r.isOk(): the innermost frame calls isOk again
isOk_B ==
    /\ rev = "B" /\ ~stack.overflow
    /\ stack.frames # << >>
    /\ stack.frames[Len(stack.frames)] = "isOk"
    /\ Len(stack.frames) < MaxStack
    /\ stack' = [stack EXCEPT !.frames = Append(@, "isOk")]
    /\ UNCHANGED <<rev, heap, r, origin, last>>

\* the stack has reached its limit: the runtime ends the program
StackOverflow_B ==
    /\ rev = "B" /\ ~stack.overflow
    /\ Len(stack.frames) >= MaxStack
    /\ stack' = [stack EXCEPT !.overflow = TRUE]
    /\ UNCHANGED <<rev, heap, r, origin, last>>

\* ------------------------------------------------------------ revision A
CallOk_A ==
    /\ rev = "A" /\ Fresh
    /\ \E v \in Values : Construct("Ok", "Ok", v, NilErr, FALSE, Ok_A(heap, v))

CallErr_A ==
    /\ rev = "A" /\ Fresh
    /\ \E e \in ErrorsA \cup {NilErr} :
          Construct("Err", "Err", NoArg, e, FALSE, Err_A(heap, e))

CallNewResult_A ==
    /\ rev = "A" /\ Fresh
    /\ \E v \in Values, e \in ErrorsA \cup {NilErr} :
          Construct("newResult", "newResult", v, e, FALSE,
                    newResult_A(heap, v, e))

\* Result[T, any]{...} written out field by field inside the package
Literal_A ==
    /\ rev = "A" /\ Fresh
    /\ \E hasV \in BOOLEAN, v \in Values, e \in ErrorsA \cup {NilErr} :
          LET h1 == IF hasV THEN Append(heap, v) ELSE heap
              lit == [value |-> IF hasV THEN Len(h1) ELSE NilPtr, err |-> e]
          IN Construct("literal", "literal", IF hasV THEN v ELSE NoArg, e,
                       FALSE, Returned(h1, lit))

CallMatch_A ==
    /\ rev = "A"
    /\ \E okF \in MatchFuncs, errF \in ErrMatchFuncs_A :
          Observe("Match", r, okF, errF, Match_A(heap, r, okF, errF))

CallAnd_A ==
    /\ rev = "A" /\ CanAlloc
    /\ \E v \in Values, e \in ErrorsA \cup {NilErr} :
          LET a == IF e # NilErr THEN Err_A(heap, e) ELSE Ok_A(heap, v)
          IN Derive("And", r, a.ret, v, And_A(a.heap, r, a.ret))

CallAndThen_A ==
    /\ rev = "A" /\ CanAlloc
    /\ \E f \in ThenFuncs : Derive("AndThen", r, f, NoArg, AndThen_A(heap, r, f))

CallIsErr_A ==
    /\ rev = "A"
    /\ Observe("IsErr", r, NoArg, NoArg, Returned(heap, IsErr_A(r)))

CallIsOk_A ==
    /\ rev = "A"
    /\ Observe("IsOk", r, NoArg, NoArg, Returned(heap, IsOk_A(r)))

CallIsErrAnd_A ==
    /\ rev = "A"
    /\ \E f \in ErrPreds_A :
          Observe("IsErrAnd", r, f, NoArg, IsErrAnd_A(heap, r, f))

CallMap_A ==
    /\ rev = "A" /\ CanAlloc
    /\ \E okF \in MapFuncs : Derive("Map", r, okF, NoArg, Map_A(heap, r, okF))

CallMapErr_A ==
    /\ rev = "A" /\ CanAlloc
    /\ \E errF \in ErrFuncs_A :
          Derive("MapErr", r, errF, NoArg, MapErr_A(heap, r, errF))

CallExpect_A ==
    /\ rev = "A" /\ CanAlloc
    /\ \E msg \in ExpectMsgs :
          Derive("Expect", r, msg, NoArg, Expect_A(heap, r, msg))

CallUnwrap_A ==
    /\ rev = "A"
    /\ Observe("Unwrap", r, NoArg, NoArg, Unwrap_A(heap, r))

CallMapOr_A ==
    /\ rev = "A"
    /\ \E f \in MapFuncs :
          Observe("MapOr", r, MaxVal, f, MapOr_A(heap, r, MaxVal, f))

CallMapOrElse_A ==
    /\ rev = "A"
    /\ \E errF \in ErrMatchFuncs_A :
          Observe("MapOrElse", r, "inc", errF,
                  MapOrElse_A(heap, r, errF, "inc"))

CallUnwrapOr_A ==
    /\ rev = "A"
    /\ \E d \in Values :
          Observe("UnwrapOr", r, d, NoArg, UnwrapOr_A(heap, r, d))

CallUnwrapOrElse_A ==
    /\ rev = "A"
    /\ \E f \in ErrMatchFuncs_A :
          Observe("UnwrapOrElse", r, f, NoArg, UnwrapOrElse_A(heap, r, f))

\* ------------------------------------------------------------ revision R
CallNew_R ==
    /\ rev = "R" /\ Fresh
    /\ \E v \in Values, e \in ErrorsA \cup {NilErr} :
          Construct("New", "New", v, e, FALSE, Returned(heap, New_R(v, e)))

CallValue_R ==
    /\ rev = "R"
    /\ Observe("Value", r, NoArg, NoArg, Returned(heap, Value_R(r)))

CallError_R ==
    /\ rev = "R"
    /\ Observe("Error", r, NoArg, NoArg, Returned(heap, Error_R(r)))

CallMatch_R ==
    /\ rev = "R"
    /\ Observe("Match", r, NoArg, NoArg, Returned(heap, Match_R(r)))

CallUnwrap_R ==
    /\ rev = "R"
    /\ Observe("Unwrap", r, NoArg, NoArg, Returned(heap, Unwrap_R(r)))

\* ------------------------------------------------------------ revision S
CallNew_S ==
    /\ rev = "S" /\ Fresh
    /\ \E v \in Values, e \in ErrorsA \cup {NilErr}, cfg \in Configs :
          Construct("New", "New", v, e, isStrict_C(cfg),
                    Returned(heap, New_S(v, e, cfg)))

CallValue_S ==
    /\ rev = "S"
    /\ Observe("Value", r, NoArg, NoArg, Value_S(heap, r))

CallError_S ==
    /\ rev = "S"
    /\ Observe("Error", r, NoArg, NoArg, Error_S(heap, r))

Next ==
    \/ CallOk_C \/ CallErr_C \/ CallNewResult_C \/ Literal_C
    \/ CallMatch_C \/ CallAnd_C \/ CallAndThen_C \/ CallIsErr_C
    \/ CallIsOk_C \/ CallMap_C \/ CallMapErr_C \/ CallUnwrap_C
    \/ CallOk_A \/ CallErr_A \/ CallNewResult_A \/ Literal_A
    \/ CallMatch_A \/ CallAnd_A \/ CallAndThen_A \/ CallIsErr_A
    \/ CallIsOk_A \/ CallMap_A \/ CallMapErr_A \/ CallExpect_A
    \/ CallUnwrap_A
    \/ CallNew_R \/ CallValue_R \/ CallError_R \/ CallMatch_R
    \/ CallUnwrap_R
    \/ CallNew_S \/ CallValue_S \/ CallError_S
    \/ CallIsErrAnd_C \/ CallIsErrAnd_A
    \/ CallOk_B \/ CallErr_B \/ CallNewResult_B \/ CallIsErr_B \/ CallMatch_B
    \/ CallIsOk_B \/ CallIsErrAnd_B \/ CallMapErr_B \/ CallUnwrapOr_B
    \/ CallUnwrapOrElse_B \/ isOk_B \/ StackOverflow_B
    \/ CallMapOr_C \/ CallMapOrElse_C \/ CallUnwrapOr_C \/ CallUnwrapOrElse_C
    \/ CallMapOr_A \/ CallMapOrElse_A \/ CallUnwrapOr_A \/ CallUnwrapOrElse_A

Spec == Init /\ [][Next]_vars

\* ======================================================================
\* Properties
\* ======================================================================
Ctors == { "Ok", "Err", "newResult" }

\* C1: every Result value, struct literals and the zero value included,
\* answers exactly one of IsOk() and IsErr() with true (revisions A and C).
C1_Exclusive ==
    /\ rev = "A" => (IsOk_A(r) # IsErr_A(r))
    /\ rev = "C" => (IsOk_C(r) # IsErr_C(r))
    /\ (rev = "A" /\ last.op = "IsOk") => (last.ret # IsErr_A(last.recv))
    /\ (rev = "C" /\ last.op = "IsOk") => (last.ret # IsErr_C(last.recv))
    /\ (rev = "A" /\ last.op = "IsErr") => (last.ret # IsOk_A(last.recv))
    /\ (rev = "C" /\ last.op = "IsErr") => (last.ret # IsOk_C(last.recv))

C1_Witness ==
    /\ rev = "C" /\ origin.by = "literal"
    /\ r.value # NilPtr /\ r.err # NilPtr
    /\ last.op = "IsOk" /\ last.ret = FALSE

\* C2: New(v, e) dispatches on e only: with e non-nil the Result has
\* Error() = e and Value() = zero value, whatever v was; with e nil it has
\* Value() = v and Error() = nil.
C2_NewDispatch ==
    (rev = "R" /\ origin.by = "New") =>
        /\ origin.error # NilErr =>
              /\ Error_R(r) = origin.error
              /\ Value_R(r) = ZeroT
        /\ origin.error = NilErr =>
              /\ Value_R(r) = origin.value
              /\ Error_R(r) = NilErr
        /\ last.op = "Value" =>
              last.ret = IF origin.error # NilErr THEN ZeroT ELSE origin.value
        /\ last.op = "Error" => last.ret = origin.error

C2_Witness ==
    /\ rev = "R" /\ origin.by = "New"
    /\ origin.value # ZeroT /\ origin.error # NilErr
    /\ last.op = "Value" /\ last.ret = ZeroT

\* what a Result of the revision under test holds (A and C)
HoldsErr(res) == IF rev = "A" THEN res.err # NilErr ELSE res.err # NilPtr

ErrOf(res) == IF rev = "A" THEN res.err ELSE heap[res.err]

ValOf(res) ==
    IF res.value = NilPtr THEN ZeroT ELSE heap[res.value]

\* an error payload: any value of E in revision C, a non-nil error in A
IsAnError(e) == rev = "A" => e # NilErr

\* C3: a Result reachable from Ok, Err or newResult through Map, MapErr,
\* And, AndThen and Expect that holds an error yields the zero value of T:
\* as the first component of Unwrap() and as the argument handed to a
\* callback.
C3_ErrorYieldsZero ==
    (rev \in {"A", "C"} /\ origin.by \in Ctors) =>
        /\ (last.op = "Unwrap" /\ ~last.panicked /\ HoldsErr(last.recv)) =>
              last.ret[1] = ZeroT
        /\ (last.op = "Map" /\ last.okCalls = 1 /\ HoldsErr(last.recv)) =>
              last.okArg = ZeroT

\* C4: Map on an error-holding Result returns, without panicking, a Result
\* holding the same error, and never invokes f.
C4_MapOnFailure ==
    (rev \in {"A", "C"} /\ origin.by \in Ctors /\ last.op = "Map"
       /\ HoldsErr(last.recv)) =>
        /\ ~last.panicked
        /\ last.okCalls = 0
        /\ HoldsErr(last.ret)
        /\ ErrOf(last.ret) = ErrOf(last.recv)

\* C5: AndThen on an error-holding receiver returns a Result holding the
\* receiver's error and never invokes f; on a success receiver it invokes
\* f exactly once, with the receiver's value, and returns the Result f
\* returned as it is.
C5_AndThenBind ==
    (rev \in {"A", "C"} /\ origin.by \in Ctors /\ last.op = "AndThen") =>
        /\ ~last.panicked
        /\ IF HoldsErr(last.recv)
           THEN /\ last.okCalls = 0
                /\ HoldsErr(last.ret)
                /\ ErrOf(last.ret) = ErrOf(last.recv)
           ELSE /\ last.okCalls = 1
                /\ last.okArg = ValOf(last.recv)
                /\ last.ret = last.cbRet
                /\ IF last.arg = "thenOk"
                   THEN /\ ~HoldsErr(last.ret)
                        /\ ValOf(last.ret) = (last.okArg + 1) % (MaxVal + 1)
                   ELSE HoldsErr(last.ret)

C5_Witness ==
    /\ rev = "C" /\ origin.by = "Ok" /\ last.op = "AndThen"
    /\ last.direct /\ last.okCalls = 1 /\ last.arg = "thenErr"
    /\ HoldsErr(last.ret)

\* C6: And precedence on Results built by Ok and Err: an error-holding
\* receiver wins; otherwise an error-holding argument wins; otherwise the
\* result is a success holding the argument's value.
C6_AndPrecedence ==
    (rev \in {"A", "C"} /\ origin.by \in {"Ok", "Err"} /\ last.op = "And"
       /\ last.direct /\ (origin.by = "Err" => IsAnError(origin.error))) =>
        /\ ~last.panicked
        /\ IF origin.by = "Err"
           THEN HoldsErr(last.ret) /\ ErrOf(last.ret) = origin.error
           ELSE IF HoldsErr(last.arg)
           THEN HoldsErr(last.ret) /\ ErrOf(last.ret) = ErrOf(last.arg)
           ELSE ~HoldsErr(last.ret) /\ ValOf(last.ret) = ValOf(last.arg)

\* C7: Unwrap() on a Result built with C{Strict: true} panics, in either
\* variant, and so does the success accessor Value(); IsErr(), IsOk() and
\* Match() never panic, strict or not.
C7_StrictUnwrapPanics ==
    /\ (rev = "C" /\ origin.by \in Ctors) =>
          /\ (last.op = "Unwrap" /\ last.direct /\ origin.strict) =>
                last.panicked
          /\ last.op \in {"IsErr", "IsOk", "Match"} => ~last.panicked
    /\ (rev = "S" /\ origin.by = "New") =>
          /\ (last.op = "Value" /\ origin.strict) => last.panicked
          /\ last.op = "Error" => ~last.panicked

C7_Witness ==
    /\ rev = "C" /\ origin.by = "newResult" /\ origin.strict
    /\ last.op = "Unwrap" /\ last.direct /\ last.panicked

\* C8: Unwrap() on a non-strict Result built by Ok(v) or Err(e) returns
\* without panicking: (v, no error) for Ok(v), (zero value, e) for Err(e).
C8_UnwrapTotal ==
    (rev \in {"A", "C"} /\ origin.by \in {"Ok", "Err"} /\ ~origin.strict
       /\ last.op = "Unwrap" /\ last.direct) =>
        /\ ~last.panicked
        /\ last.ret[1] = IF origin.by = "Ok" THEN origin.value ELSE ZeroT
        /\ origin.by = "Err" => last.ret[2] = origin.error
        /\ origin.by = "Ok" =>
              last.ret[2] = IF rev = "A" THEN NilErr ELSE ZeroT

Observed(h, res) ==
    IF rev = "A"
    THEN <<res.err, res.value = NilPtr,
           IF res.value = NilPtr THEN ZeroT ELSE h[res.value]>>
    ELSE <<res.err = NilPtr, IF res.err = NilPtr THEN ZeroT ELSE h[res.err],
           res.value = NilPtr,
           IF res.value = NilPtr THEN ZeroT ELSE h[res.value],
           res.strict>>

\* one step leaves the receiver, the argument and every payload cell alone
C11_Step ==
    /\ \/ heap' = heap
       \/ /\ Len(heap') >= Len(heap)
          /\ \A a \in 1 .. Len(heap) : heap'[a] = heap[a]
          /\ Observed(heap', r) = Observed(heap, r)
    /\ (last'.op \notin {"Ok", "Err", "newResult", "literal", "none"}) =>
          (last'.recv = r)
    /\ (last'.op = "And" /\ last'.arg.value # NilPtr) =>
          (heap'[last'.arg.value] = last'.arg2)
    /\ (last'.op = "And" /\ rev = "C" /\ last'.arg.err # NilPtr) =>
          (heap'[last'.arg.err] = last'.arg2)

\* C11: no call changes its receiver or its argument: what is observed of
\* the Result the caller held before a step (variant, value payload, error
\* payload, strict flag) is the same after it, every payload cell that
\* existed keeps its content, and the argument of And still holds the
\* payload it was built with - also when the derived Result shares a
\* payload pointer with the receiver (Map, MapErr).
C11_Immutable ==
    [][(rev \in {"A", "C"}) => C11_Step]_vars

C11_Witness ==
    /\ rev = "C" /\ last.op = "MapErr" /\ last.errCalls = 1
    /\ last.recv.value # NilPtr /\ last.ret.value = last.recv.value
    /\ heap[last.ret.err] # heap[last.recv.err]
    /\ r = last.ret

C13_Step ==
    (rev = "A" /\ last'.op = "Expect") =>
        /\ last'.recv = r /\ last'.ret = r' /\ ~last'.panicked
        /\ Observed(heap', r) = Observed(heap, r)
        /\ isOk_A(r) => (r' = r /\ heap' = heap)
        /\ isErr_A(r) =>
              /\ isErr_A(r')
              /\ Head(r'.err) = last'.arg
              /\ Tail(r'.err) = r.err
              /\ r' # r

\* C13: Expect(msg) on a success returns the receiver as it is; on a Result
\* holding error e it returns a new error Result whose error reads
\* "msg: e" and still wraps e, so e can be recovered from it; the receiver
\* is left unchanged and the returned Result can be chained further.
C13_Expect == [][C13_Step]_vars

C13_Witness ==
    /\ rev = "A" /\ last.op = "Expect" /\ origin.by = "Err"
    /\ Len(r.err) = 3 /\ r.err[1] \in ExpectMsgs /\ r.err[2] \in ExpectMsgs
    /\ <<r.err[3]>> = origin.error

\* C14: IsErrAnd is true exactly when the Result holds an error and that
\* error matches the argument: the predicate holds of it (predicate form,
\* revision A), it equals the given error (by-value form, revision C). On
\* a success it is false and the predicate is not invoked; in particular
\* Err(e).IsErrAnd(e) is true in the by-value form.
C14_IsErrAnd ==
    (rev \in {"A", "C"} /\ origin.by \in Ctors /\ last.op = "IsErrAnd") =>
        /\ ~last.panicked
        /\ ~HoldsErr(last.recv) => (last.ret = FALSE /\ last.errCalls = 0)
        /\ (rev = "A" /\ HoldsErr(last.recv)) =>
              (last.ret = ApplyErrPred_A(last.arg, last.recv.err))
        /\ (rev = "C" /\ HoldsErr(last.recv)) =>
              (last.ret = (heap[last.recv.err] = last.arg))

\* C15: in the reflection revision r.Match() equals exactly one of Ok()
\* and Err() for every Result value: Ok() for New(v, nil), Err() for
\* New(v, e) with e non-nil, and one of the two also for a Result that was
\* not built through New, such as the zero value.
C15_MatchExhaustive ==
    (rev = "R" /\ last.op = "Match") =>
        /\ ~last.panicked
        /\ (last.ret = Ok_R) # (last.ret = Err_R)
        /\ (origin.by = "New" /\ origin.error = NilErr) => (last.ret = Ok_R)
        /\ (origin.by = "New" /\ origin.error # NilErr) => (last.ret = Err_R)

\* C16: in revision B IsOk() returns for every Result, and with it the
\* methods that branch on isOk() (IsErrAnd, MapErr, UnwrapOr,
\* UnwrapOrElse): a call runs isOk once, directly under the method, the
\* call stack never reaches its limit, and a returned IsOk() is true
\* exactly when the Result has no error.
C16_IsOkReturns ==
    rev = "B" =>
        /\ ~stack.overflow
        /\ \A i \in 1 .. Len(stack.frames) :
              (stack.frames[i] = "isOk") => (i = 2)
        /\ (last.op = "IsOk") =>
              (~last.panicked /\ last.ret = ~isErr_B(last.recv))

\* C17: in the revisions with a generic error type a Result built by
\* newResult(v, e) with e the zero value of E is a success: IsErr() is
\* false, IsOk() is true and Match calls okF with v.
C17_EmptyErrorIsSuccess ==
    (rev \in {"B", "C"} /\ origin.by = "newResult" /\ ~origin.derived
        /\ origin.error = ZeroT) =>
        /\ ~HoldsErr(r)
        /\ (last.op = "IsErr") => (last.ret = FALSE)
        /\ (last.op = "IsOk") => (last.ret = TRUE)
        /\ (last.op = "Match") =>
              /\ ~last.panicked
              /\ last.okCalls = 1 /\ last.errCalls = 0
              /\ last.okArg = origin.value

\* C18: strictness is preserved by derivation: when Map, MapErr, And, or
\* AndThen on a failure is applied to a strict Result, the Result it
\* returns is strict as well (IsStrict() is true), so that Unwrap() on it
\* panics.
C18_StrictPreserved ==
    (/\ rev = "C" /\ origin.by \in Ctors /\ ~last.panicked
     /\ \/ last.op \in {"Map", "MapErr", "And"}
        \/ last.op = "AndThen" /\ HoldsErr(last.recv)
     /\ IsStrict_C(last.recv)) =>
        /\ IsStrict_C(last.ret)
        /\ Unwrap_C(heap, last.ret).panicked

====
